---------------------------- MODULE Spec2Model ----------------------------
(***************************************************************************)
(* Transit-window extraction of quicklook/quicklook.py: find_time_range,   *)
(* strip_rows, strip_rows_negative, make_label_column, strip_cols and the  *)
(* control flow of gather_data.                                            *)
(*                                                                         *)
(* Time is counted in ticks of 1/48 day (half an hour), so that every      *)
(* module constant of quicklook.py (given there in days) and dur / 2. for  *)
(* a duration of whole hours are integers and the arithmetic is exact.     *)
(* Python's None is a record whose field none is TRUE.                     *)
(***************************************************************************)
EXTENDS Integers, Sequences, FiniteSets, TLC

VARIABLES
    pc,               \* position in the function under analysis
    RANDOMIZE_BOUND,  \* module flag: randomized or fixed padding
    table_start,      \* TSTART of the light curve
    table_stop,       \* TSTOP of the light curve
    epoch,            \* i_epoch of the catalog row
    period,           \* i_period of the catalog row
    dur,              \* i_dur / 24. of the catalog row
    is_eb,            \* EB_injection of the catalog row (0 or 1)
    time_col,         \* the TIME column
    time_start,       \* window argument of strip_rows / strip_rows_negative
    time_stop,
    loc,              \* locals of find_time_range (they are logged)
    ftr,              \* what find_time_range returned
    rows,             \* what strip_rows returned
    neg,              \* locals of strip_rows_negative: dur, i, neg_start, neg_stop
    neg_rows,         \* what strip_rows_negative returned
    transit_rows,     \* what strip_rows returned for the raw transit
    lab,              \* the label columns / per-row labels that were built
    ret               \* how gather_data ended

vars == <<pc, RANDOMIZE_BOUND, table_start, table_stop, epoch, period, dur,
          is_eb, time_col, time_start, time_stop, loc, ftr, rows, neg,
          neg_rows, transit_rows, lab, ret>>

(***************************************************************************)
(* Module constants of quicklook.py, in ticks of 1/48 day.                 *)
(***************************************************************************)
BOUND_TOL == 12
BOUND_TOL_UPPER == 48
BOUND_TOL_LOWER == 6
NEG_UPPER == 96
NEG_LOWER == 16
\* range(100) of strip_rows_negative
MaxAttempts == 100

(***************************************************************************)
(* Bounds of the model.                                                    *)
(***************************************************************************)
\* table_start ranges over 0..MaxOffset
MaxOffset == 2
\* random.uniform(lo, hi) is drawn from lo, lo + DrawStride, ..., and hi
DrawStride == 40
\* longest TIME column
MaxLen == 3
\* the TIME column of strip_rows holds values in 0..MaxTime, or Infinity
MaxTime == 3
\* stands for a non-finite time: larger than every finite value
Infinity == 1000

\* random.uniform(lo, hi): a value of [lo, hi], both ends included
uniform(lo, hi) == {x \in lo..hi : (x - lo) % DrawStride = 0} \cup {hi}

None4 == [none |-> TRUE, start |-> 0, stop |-> 0,
          transit_start |-> 0, transit_stop |-> 0]
None2 == [none |-> TRUE, index_start |-> 0, index_stop |-> 0]
NoLoc == [num_period |-> 0, mid_transit |-> 0, transit_start |-> 0,
          transit_stop |-> 0]
NoNeg == [dur |-> 0, i |-> 0, neg_start |-> 0, neg_stop |-> 0]
\* gather_data has not ended: no segment returned, nothing raised
Running == [ended |-> FALSE, t |-> "None", neg_t |-> "None", raised |-> "no"]
NoLab == [built |-> "none", IN_TRANSIT |-> <<>>, EB_injection |-> <<>>,
          TIME |-> <<>>]

(***************************************************************************)
(* find_time_range                                                         *)
(***************************************************************************)
\* floor division without the off-by-one
num_period_no_plus_one(t_start, ep, per) == (t_start - ep) \div per

\* quicklook.py line 40
num_period(t_start, ep, per) == ((t_start - ep) \div per) + 1

\* quicklook.py line 42
mid_transit(t_start, ep, per) == ep + per * num_period(t_start, ep, per)

\* quicklook.py lines 43-45
find_locals(t_start, ep, per, d) ==
    LET mid == mid_transit(t_start, ep, per)
        half_width == d \div 2
    IN  [num_period    |-> num_period(t_start, ep, per),
         mid_transit   |-> mid,
         transit_start |-> mid - half_width,
         transit_stop  |-> mid + half_width]

\* the boundary check with the comparisons made strict
clipped_strict(t_start, t_stop, start, stop) ==
    t_start > start \/ stop > t_stop

\* quicklook.py line 61
clipped(t_start, t_stop, start, stop) ==
    t_start >= start \/ stop >= t_stop

\* quicklook.py lines 51-59; pad_lo and pad_hi are the two random.uniform
\* draws, read only when randomize holds
padded(l, randomize, pad_lo, pad_hi) ==
    IF randomize
    THEN [start |-> l.transit_start - pad_lo, stop |-> l.transit_stop + pad_hi]
    ELSE [start |-> l.transit_start - BOUND_TOL,
          stop  |-> l.transit_stop - BOUND_TOL]

\* quicklook.py lines 38-65
find_time_range(t_start, t_stop, ep, per, d, randomize, pad_lo, pad_hi) ==
    LET l == find_locals(t_start, ep, per, d)
        w == padded(l, randomize, pad_lo, pad_hi)
    IN  IF clipped(t_start, t_stop, w.start, w.stop)
        THEN None4
        ELSE [none |-> FALSE, start |-> w.start, stop |-> w.stop,
              transit_start |-> l.transit_start,
              transit_stop |-> l.transit_stop]

\* the padding draws of one call: both from [BOUND_TOL_LOWER, BOUND_TOL_UPPER]
\* when randomized, none otherwise
PadDraws(randomize) ==
    IF randomize THEN uniform(BOUND_TOL_LOWER, BOUND_TOL_UPPER) ELSE {0}

(***************************************************************************)
(* Inputs.                                                                 *)
(***************************************************************************)
TableStarts == 0..MaxOffset
TableStops == {20, 120, 200}
Epochs == {-150, -50, 0, 1, 21, 26, 100}
Periods == {1, 10, 30, 150}
\* whole hours, so that dur / 2. is a whole number of ticks
Durs == {2, 4, 20}

Idle ==
    /\ time_col = <<>> /\ time_start = 0 /\ time_stop = 0
    /\ loc = NoLoc /\ ftr = None4 /\ rows = None2 /\ neg = NoNeg
    /\ neg_rows = None2 /\ transit_rows = None2 /\ lab = NoLab
    /\ ret = Running

(***************************************************************************)
(* SpecFTR: find_time_range applied to every input of the sets above.      *)
(***************************************************************************)
InitFTR ==
    /\ pc = "find_time_range"
    /\ RANDOMIZE_BOUND \in BOOLEAN
    /\ table_start \in TableStarts
    /\ table_stop \in TableStops
    /\ epoch \in Epochs
    /\ period \in Periods
    /\ dur \in Durs
    /\ is_eb = 0
    /\ Idle

FindTimeRange ==
    /\ pc = "find_time_range"
    /\ \E pad_lo \in PadDraws(RANDOMIZE_BOUND), pad_hi \in PadDraws(RANDOMIZE_BOUND) :
         ftr' = find_time_range(table_start, table_stop, epoch, period, dur,
                                RANDOMIZE_BOUND, pad_lo, pad_hi)
    /\ loc' = find_locals(table_start, epoch, period, dur)
    /\ pc' = "find_time_range_done"
    /\ UNCHANGED <<RANDOMIZE_BOUND, table_start, table_stop, epoch, period, dur,
                   is_eb, time_col, time_start, time_stop, rows, neg, neg_rows,
                   transit_rows, lab, ret>>

NextFTR == FindTimeRange

SpecFTR == InitFTR /\ [][NextFTR]_vars


(***************************************************************************)
(* Claims about find_time_range, checked under SpecFTR.                    *)
(***************************************************************************)
Returned == pc = "find_time_range_done"

\* C1: whenever find_time_range returns a window (start, stop) rather than
\* the failure tuple, under either padding policy and for every padding
\* draw, table_start < start <= stop < table_stop.
C1_WindowInsideTable ==
    (Returned /\ ~ftr.none) =>
        /\ table_start < ftr.start
        /\ ftr.start <= ftr.stop
        /\ ftr.stop < table_stop

\* a window was returned under the fixed policy
C1_Witness == Returned /\ ~ftr.none /\ ~RANDOMIZE_BOUND

\* a window was returned under the randomized policy
C1_WitnessRandomized == Returned /\ ~ftr.none /\ RANDOMIZE_BOUND

\* C4: mid_transit = epoch + period * num_period is the smallest occurrence
\* epoch + k * period strictly greater than table_start, so that
\* table_start < mid_transit <= table_start + period; when table_start is
\* itself an occurrence epoch + j * period, the chosen one is the next,
\* j + 1.
C4_NextOccurrence ==
    Returned =>
        /\ loc.mid_transit = epoch + period * loc.num_period
        /\ table_start < loc.mid_transit
        /\ loc.mid_transit - period <= table_start
        /\ (table_start - epoch) % period = 0 =>
             (loc.num_period - 1) * period = table_start - epoch

\* table_start is an occurrence other than the epoch itself
C4_Witness ==
    /\ Returned
    /\ table_start # epoch
    /\ period > 1
    /\ (table_start - epoch) % period = 0

\* C6: under the fixed policy the returned window is
\* (transit_start - BOUND_TOL, transit_stop + BOUND_TOL): the same margin on
\* both sides, so that the window contains the raw transit.
C6_FixedWindowPadsBothSides ==
    (Returned /\ ~RANDOMIZE_BOUND /\ ~ftr.none) =>
        /\ ftr.start = ftr.transit_start - BOUND_TOL
        /\ ftr.stop = ftr.transit_stop + BOUND_TOL
        /\ ftr.start <= ftr.transit_start
        /\ ftr.transit_stop <= ftr.stop

\* C7: if the raw transit does not overlap the observed span
\* (table_start >= transit_stop or table_stop <= transit_start),
\* find_time_range returns no window, under either policy.
C7_NoOverlapFails ==
    (Returned /\ (table_start >= loc.transit_stop \/ table_stop <= loc.transit_start))
        => ftr.none

\* the same under the randomized policy alone
C7_NoOverlapFailsRandomized ==
    (Returned /\ RANDOMIZE_BOUND
       /\ (table_start >= loc.transit_stop \/ table_stop <= loc.transit_start))
        => ftr.none

(***************************************************************************)
(* strip_rows                                                              *)
(***************************************************************************)
\* np.isfinite of one value
isfinite(x) == -Infinity < x /\ x < Infinity

\* np.searchsorted: binary search of the sorted a for the insertion point of
\* v, 0-based; a[mid + 1] is Python's a[mid]
RECURSIVE bisect(_, _, _, _, _)
bisect(a, v, lo, hi, side) ==
    IF lo >= hi
    THEN lo
    ELSE LET mid == lo + ((hi - lo) \div 2)
             below == IF side = "right" THEN a[mid + 1] <= v ELSE a[mid + 1] < v
         IN  IF below
             THEN bisect(a, v, mid + 1, hi, side)
             ELSE bisect(a, v, lo, mid, side)

searchsorted(a, v, side) == bisect(a, v, 0, Len(a), side)

\* strip_rows with side="right" left out of the second search
strip_rows_left_left(t_col, t_start, t_stop) ==
    IF \E i \in 1..Len(t_col) : ~isfinite(t_col[i])
    THEN None2
    ELSE IF \E i \in 1..(Len(t_col) - 1) : t_col[i] >= t_col[i + 1]
    THEN None2
    ELSE [none |-> FALSE,
          index_start |-> searchsorted(t_col, t_start, "left"),
          index_stop  |-> searchsorted(t_col, t_stop, "left")]

\* quicklook.py lines 67-79
strip_rows(t_col, t_start, t_stop) ==
    IF \E i \in 1..Len(t_col) : ~isfinite(t_col[i])
    THEN None2
    ELSE IF \E i \in 1..(Len(t_col) - 1) : t_col[i] >= t_col[i + 1]
    THEN None2
    ELSE [none |-> FALSE,
          index_start |-> searchsorted(t_col, t_start, "left"),
          index_stop  |-> searchsorted(t_col, t_stop, "right")]

\* every sequence over S of length at most n
SeqsUpTo(S, n) == UNION {[1..k -> S] : k \in 0..n}

StrictlyIncreasing(t_col) ==
    \A i \in 1..(Len(t_col) - 1) : t_col[i] < t_col[i + 1]

AllFinite(t_col) == \A i \in 1..Len(t_col) : isfinite(t_col[i])

(***************************************************************************)
(* SpecRows: strip_rows applied to every TIME column of at most MaxLen     *)
(* values of 0..MaxTime or Infinity, sorted or not, and every window with  *)
(* ends in -1..MaxTime + 1.                                                *)
(***************************************************************************)
InitRows ==
    /\ pc = "strip_rows"
    /\ time_col \in SeqsUpTo((0..MaxTime) \cup {Infinity}, MaxLen)
    /\ time_start \in -1..(MaxTime + 1)
    /\ time_stop \in -1..(MaxTime + 1)
    /\ RANDOMIZE_BOUND = TRUE
    /\ table_start = 0 /\ table_stop = 0 /\ epoch = 0 /\ period = 1 /\ dur = 2
    /\ is_eb = 0
    /\ loc = NoLoc /\ ftr = None4 /\ rows = None2 /\ neg = NoNeg
    /\ neg_rows = None2 /\ transit_rows = None2 /\ lab = NoLab
    /\ ret = Running

StripRows ==
    /\ pc = "strip_rows"
    /\ rows' = strip_rows(time_col, time_start, time_stop)
    /\ pc' = "strip_rows_done"
    /\ UNCHANGED <<RANDOMIZE_BOUND, table_start, table_stop, epoch, period, dur,
                   is_eb, time_col, time_start, time_stop, loc, ftr, neg,
                   neg_rows, transit_rows, lab, ret>>

NextRows == StripRows

SpecRows == InitRows /\ [][NextRows]_vars

\* C8: for a finite, strictly increasing TIME column and a window with
\* time_start <= time_stop, strip_rows returns a half-open index range
\* [index_start, index_stop) with index_start <= index_stop that holds
\* exactly the indices i with time_start <= time_col[i] <= time_stop (both
\* ends included); with no sample in the window the range is empty, and it
\* is returned as a result, not as (None, None).
C8_RangeIsExactlyTheWindow ==
    (/\ pc = "strip_rows_done"
     /\ AllFinite(time_col)
     /\ StrictlyIncreasing(time_col)
     /\ time_start <= time_stop) =>
        /\ ~rows.none
        /\ 0 <= rows.index_start
        /\ rows.index_start <= rows.index_stop
        /\ rows.index_stop <= Len(time_col)
        /\ \A i \in 0..(Len(time_col) - 1) :
             (rows.index_start <= i /\ i < rows.index_stop)
                 <=> (time_start <= time_col[i + 1] /\ time_col[i + 1] <= time_stop)

\* a sorted column with a sample on each end of the window and one outside
C8_Witness ==
    /\ pc = "strip_rows_done"
    /\ AllFinite(time_col)
    /\ StrictlyIncreasing(time_col)
    /\ time_start < time_stop
    /\ \E i, j, k \in 1..Len(time_col) :
         /\ time_col[i] = time_start
         /\ time_col[j] = time_stop
         /\ time_col[k] > time_stop
    /\ ~rows.none
    /\ rows.index_stop - rows.index_start >= 2

\* a sorted, non-empty column with no sample in the window: the empty range
C8_WitnessEmptyRange ==
    /\ pc = "strip_rows_done"
    /\ Len(time_col) > 0
    /\ AllFinite(time_col)
    /\ StrictlyIncreasing(time_col)
    /\ time_start <= time_stop
    /\ \A i \in 1..Len(time_col) : time_col[i] < time_start \/ time_col[i] > time_stop
    /\ ~rows.none
    /\ rows.index_start = rows.index_stop

(***************************************************************************)
(* strip_rows_negative                                                     *)
(***************************************************************************)
\* the overlap test with the interval ends left out
overlaps_open(n_start, n_stop, t_start, t_stop) ==
    (n_start < t_stop) /\ (t_start < n_stop)

\* quicklook.py line 88: the candidate meets the interval to avoid
overlaps(n_start, n_stop, t_start, t_stop) ==
    (n_start <= t_stop) /\ (t_start <= n_stop)

\* one attempt too many
in_range_inclusive(i) == i <= MaxAttempts

\* quicklook.py line 85: for i in range(100) has another iteration after i
in_range(i) == i < MaxAttempts

\* quicklook.py line 83
ChooseDur ==
    /\ pc = "strip_rows_negative"
    /\ \E d \in uniform(NEG_LOWER, NEG_UPPER) :
         neg' = [dur |-> d, i |-> 0, neg_start |-> 0, neg_stop |-> 0]
    /\ pc' = "neg_loop"
    /\ UNCHANGED <<RANDOMIZE_BOUND, table_start, table_stop, epoch, period, dur,
                   is_eb, time_col, time_start, time_stop, loc, ftr, rows,
                   neg_rows, transit_rows, lab, ret>>

\* quicklook.py lines 85-89 and 93: one iteration of the loop; neg.i counts
\* the candidates drawn. A candidate clear of the interval breaks out of the
\* loop and strip_rows slices it; after is the position of the caller.
Attempt(after) ==
    /\ pc = "neg_loop"
    /\ in_range(neg.i)
    /\ Len(time_col) > 0
    /\ \E k \in 1..Len(time_col) :
         LET n_start == time_col[k]
             n_stop == n_start + neg.dur
         IN  /\ neg' = [neg EXCEPT !.i = @ + 1, !.neg_start = n_start,
                                   !.neg_stop = n_stop]
             /\ IF ~overlaps(n_start, n_stop, time_start, time_stop)
                THEN /\ neg_rows' = strip_rows(time_col, n_start, n_stop)
                     /\ pc' = after
                ELSE /\ neg_rows' = neg_rows
                     /\ pc' = "neg_loop"
    /\ UNCHANGED <<RANDOMIZE_BOUND, table_start, table_stop, epoch, period, dur,
                   is_eb, time_col, time_start, time_stop, loc, ftr, rows,
                   transit_rows, lab, ret>>

\* quicklook.py lines 90-92: the loop ran out without a break
Exhausted(after) ==
    /\ pc = "neg_loop"
    /\ ~in_range(neg.i)
    /\ neg_rows' = None2
    /\ pc' = after
    /\ UNCHANGED <<RANDOMIZE_BOUND, table_start, table_stop, epoch, period, dur,
                   is_eb, time_col, time_start, time_stop, loc, ftr, rows, neg,
                   transit_rows, lab, ret>>

\* quicklook.py line 86: random.choice of an empty column raises IndexError,
\* which leaves strip_rows_negative (and gather_data) without a result
ChoiceOfEmpty ==
    /\ pc = "neg_loop"
    /\ in_range(neg.i)
    /\ Len(time_col) = 0
    /\ pc' = "IndexError"
    /\ ret' = [ret EXCEPT !.raised = "IndexError"]
    /\ UNCHANGED <<RANDOMIZE_BOUND, table_start, table_stop, epoch, period, dur,
                   is_eb, time_col, time_start, time_stop, loc, ftr, rows, neg,
                   neg_rows, transit_rows, lab>>

(***************************************************************************)
(* SpecNeg: strip_rows_negative applied to every strictly increasing TIME  *)
(* column of at most MaxLen values of NegTimes (gather_data calls it only  *)
(* once strip_rows has accepted the column) and every window of            *)
(* NegWindows.                                                             *)
(***************************************************************************)
\* spacing of the samples of NegTimes
TimeStep == 40

NegTimes == {k * TimeStep : k \in 0..MaxTime}

NegWindows == {<<-10, -5>>, <<0, 0>>, <<0, 200>>, <<16, 30>>, <<16, 40>>,
               <<56, 100>>, <<100, 300>>, <<300, 400>>}

InitNeg ==
    /\ pc = "strip_rows_negative"
    /\ time_col \in {c \in SeqsUpTo(NegTimes, MaxLen) : StrictlyIncreasing(c)}
    /\ \E w \in NegWindows : time_start = w[1] /\ time_stop = w[2]
    /\ RANDOMIZE_BOUND = TRUE
    /\ table_start = 0 /\ table_stop = 0 /\ epoch = 0 /\ period = 1 /\ dur = 2
    /\ is_eb = 0
    /\ loc = NoLoc /\ ftr = None4 /\ rows = None2 /\ neg = NoNeg
    /\ neg_rows = None2 /\ transit_rows = None2 /\ lab = NoLab
    /\ ret = Running

NextNeg ==
    \/ ChooseDur
    \/ Attempt("strip_rows_negative_done")
    \/ Exhausted("strip_rows_negative_done")
    \/ ChoiceOfEmpty

SpecNeg == InitNeg /\ [][NextNeg]_vars

NegReturned == pc = "strip_rows_negative_done"

\* the loop of strip_rows_negative ended by its break
NegAccepted == NegReturned /\ ~overlaps(neg.neg_start, neg.neg_stop, time_start, time_stop)

\* C2: whenever strip_rows_negative accepts a candidate
\* [neg_start, neg_stop], the candidate does not overlap the positive
\* window: neg_stop < time_start or neg_start > time_stop.
C2_NegativeClearOfPositive ==
    (NegReturned /\ ~neg_rows.none) =>
        /\ neg.neg_stop < time_start \/ neg.neg_start > time_stop
        /\ neg.neg_stop = neg.neg_start + neg.dur
        /\ \E k \in 1..Len(time_col) : neg.neg_start = time_col[k]

\* a candidate was accepted on the far side of a window that some earlier
\* candidates met
C2_Witness ==
    /\ NegReturned
    /\ ~neg_rows.none
    /\ neg.i > 1
    /\ neg.neg_start > time_stop

\* C9: strip_rows_negative ends after at most 100 candidate draws: it stops
\* at the first candidate clear of the positive window and slices that one;
\* with all 100 candidates meeting the window it returns (None, None); in
\* particular, with every timestamp of a (non-empty) column inside the
\* positive window, it fails after exactly 100 draws.
C9_BoundedRetry ==
    /\ neg.i <= MaxAttempts
    /\ (pc = "neg_loop" /\ neg.i > 0) =>
           overlaps(neg.neg_start, neg.neg_stop, time_start, time_stop)
    /\ NegAccepted =>
           neg_rows = strip_rows(time_col, neg.neg_start, neg.neg_stop)
    /\ (NegReturned /\ ~NegAccepted) =>
           neg.i = MaxAttempts /\ neg_rows.none
    /\ (/\ NegReturned
        /\ Len(time_col) > 0
        /\ \A k \in 1..Len(time_col) :
             time_start <= time_col[k] /\ time_col[k] <= time_stop) =>
           neg.i = MaxAttempts /\ neg_rows.none
    /\ pc \in {"strip_rows_negative", "neg_loop"} => ENABLED NextNeg

\* every timestamp is inside the positive window and the call has failed
C9_Witness ==
    /\ NegReturned
    /\ Len(time_col) > 1
    /\ \A k \in 1..Len(time_col) :
         time_start <= time_col[k] /\ time_col[k] <= time_stop
    /\ neg.i = MaxAttempts
    /\ neg_rows.none

(***************************************************************************)
(* Labels: make_label_column, the label columns of gather_data, and the    *)
(* per-row labels of strip_cols.                                           *)
(***************************************************************************)
\* np.zeros(length)
zeros(length) == [i \in 1..length |-> 0]

\* quicklook.py lines 95-98: out[start:stop] = 1 on a column of zeros; the
\* 0-based index i - 1 is in the slice when start <= i - 1 < stop
make_label_column(length, start, stop) ==
    [i \in 1..length |-> IF start <= i - 1 /\ i - 1 < stop THEN 1 ELSE 0]

\* quicklook.py lines 143-148: the two label columns, by is_eb
label_columns(length, i_transit_start, i_transit_stop, eb) ==
    IF eb # 0
    THEN [IN_TRANSIT   |-> make_label_column(length, i_transit_start, i_transit_stop),
          EB_injection |-> zeros(length)]
    ELSE [IN_TRANSIT   |-> zeros(length),
          EB_injection |-> make_label_column(length, i_transit_start, i_transit_stop)]

\* quicklook.py lines 103-110: the labels of the rows of strip_cols. m is
\* the mid_transit that lines 103-104 read, d is dur, r_times the TIME of
\* the rows of the loop of line 106 (SAP_FLUX is copied and left out here).
\* int(is_eb and in_transit) is in_transit for a true is_eb, 0 otherwise.
strip_cols(r_times, m, eb, d) ==
    LET start == m - (d \div 2)
        stop == m + (d \div 2)
        in_transit(t) == IF start <= t /\ t <= stop THEN 1 ELSE 0
        eb_injection(t) == IF eb # 0 THEN in_transit(t) ELSE 0
    IN  [TIME         |-> r_times,
         IN_TRANSIT   |-> [i \in 1..Len(r_times) |-> in_transit(r_times[i])],
         EB_injection |-> [i \in 1..Len(r_times) |-> eb_injection(r_times[i])]]

\* Python's t_col[i_start:i_stop] for 0 <= i_start, i_stop <= len(t_col)
slice(t_col, i_start, i_stop) ==
    IF i_start >= i_stop THEN <<>> ELSE SubSeq(t_col, i_start + 1, i_stop)

(***************************************************************************)
(* SpecLabels: the labelling code applied to every strictly increasing     *)
(* TIME column of at most MaxLen values of 0..MaxTime, every transit       *)
(* centred in 0..MaxTime, and every window of the positive segment.  The   *)
(* names time (lines 144-148), mid_transit (lines 103-104) and fits_rows   *)
(* (line 106) are bound nowhere in quicklook.py; here they are the         *)
(* arguments of the functions: the TIME column, the mid-transit of         *)
(* find_time_range, and the rows of the segment.                           *)
(***************************************************************************)
LabelDurs == {2, 4}

InitLabels ==
    /\ pc = "labels"
    /\ time_col \in {c \in SeqsUpTo(0..MaxTime, MaxLen) : StrictlyIncreasing(c)}
    /\ time_start \in -1..(MaxTime + 1)
    /\ time_stop \in time_start..(MaxTime + 1)
    /\ dur \in LabelDurs
    /\ \E m \in 0..MaxTime :
         loc = [num_period |-> 0, mid_transit |-> m,
                transit_start |-> m - (dur \div 2),
                transit_stop |-> m + (dur \div 2)]
    /\ is_eb \in {0, 1}
    /\ RANDOMIZE_BOUND = TRUE
    /\ table_start = 0 /\ table_stop = 0 /\ epoch = 0 /\ period = 1
    /\ ftr = None4 /\ rows = None2 /\ neg = NoNeg
    /\ neg_rows = None2 /\ transit_rows = None2 /\ lab = NoLab
    /\ ret = Running

\* quicklook.py lines 140-148
BuildLabelColumns ==
    /\ pc = "labels"
    /\ transit_rows' = strip_rows(time_col, loc.transit_start, loc.transit_stop)
    /\ LET c == label_columns(Len(time_col), transit_rows'.index_start,
                              transit_rows'.index_stop, is_eb)
       IN  lab' = [built |-> "gather_data", TIME |-> time_col,
                   IN_TRANSIT |-> c.IN_TRANSIT, EB_injection |-> c.EB_injection]
    /\ pc' = "labels_done"
    /\ UNCHANGED <<RANDOMIZE_BOUND, table_start, table_stop, epoch, period, dur,
                   is_eb, time_col, time_start, time_stop, loc, ftr, rows, neg,
                   neg_rows, ret>>

\* quicklook.py lines 100-113 on the rows of the positive segment
StripColsPositive ==
    /\ pc = "labels"
    /\ rows' = strip_rows(time_col, time_start, time_stop)
    /\ LET c == strip_cols(slice(time_col, rows'.index_start, rows'.index_stop),
                           loc.mid_transit, is_eb, dur)
       IN  lab' = [built |-> "strip_cols", TIME |-> c.TIME,
                   IN_TRANSIT |-> c.IN_TRANSIT, EB_injection |-> c.EB_injection]
    /\ pc' = "labels_done"
    /\ UNCHANGED <<RANDOMIZE_BOUND, table_start, table_stop, epoch, period, dur,
                   is_eb, time_col, time_start, time_stop, loc, ftr, neg,
                   neg_rows, transit_rows, ret>>

\* quicklook.py line 155: strip_cols on the rows of a negative segment, with
\* 0 for is_eb
StripColsNegative ==
    /\ pc = "labels"
    /\ neg_rows' = strip_rows(time_col, time_start, time_stop)
    /\ LET c == strip_cols(slice(time_col, neg_rows'.index_start, neg_rows'.index_stop),
                           loc.mid_transit, 0, dur)
       IN  lab' = [built |-> "strip_cols_negative", TIME |-> c.TIME,
                   IN_TRANSIT |-> c.IN_TRANSIT, EB_injection |-> c.EB_injection]
    /\ pc' = "labels_done"
    /\ UNCHANGED <<RANDOMIZE_BOUND, table_start, table_stop, epoch, period, dur,
                   is_eb, time_col, time_start, time_stop, loc, ftr, rows, neg,
                   transit_rows, ret>>

NextLabels == BuildLabelColumns \/ StripColsPositive \/ StripColsNegative

SpecLabels == InitLabels /\ [][NextLabels]_vars

InWindow(t) == loc.transit_start <= t /\ t <= loc.transit_stop

Labelled == pc = "labels_done"

C3_ColumnsExclusive ==
    (Labelled /\ lab.built = "gather_data") =>
        \A i \in 1..Len(lab.TIME) :
            ~(lab.IN_TRANSIT[i] = 1 /\ lab.EB_injection[i] = 1)

C5_StripColsNotEb ==
    (Labelled /\ lab.built = "strip_cols" /\ is_eb = 0) =>
        \A i \in 1..Len(lab.TIME) :
            /\ lab.IN_TRANSIT[i] = 1 <=> InWindow(lab.TIME[i])
            /\ lab.EB_injection[i] = 0

(***************************************************************************)
(* Spec: gather_data, statement by statement, as main calls it.            *)
(***************************************************************************)
\* sample times of the TIME columns of gather_data
GatherTimes == {10, 100, 190}

\* the catalog rows and observed spans of gather_data: a part of the inputs
\* of SpecFTR
GatherTableStops == {20, 200}
GatherEpochs == {-50, 21, 100}
GatherPeriods == {30, 150}
GatherDurs == {2, 20}

\* longest TIME column of gather_data
MaxGatherLen == 2

Init ==
    /\ pc = "find_time_range"
    /\ RANDOMIZE_BOUND \in BOOLEAN
    /\ table_start \in TableStarts
    /\ table_stop \in GatherTableStops
    /\ epoch \in GatherEpochs
    /\ period \in GatherPeriods
    /\ dur \in GatherDurs
    /\ is_eb = 0
    /\ time_col \in SeqsUpTo(GatherTimes, MaxGatherLen)
    /\ time_start = 0 /\ time_stop = 0
    /\ loc = NoLoc /\ ftr = None4 /\ rows = None2 /\ neg = NoNeg
    /\ neg_rows = None2 /\ transit_rows = None2 /\ lab = NoLab
    /\ ret = Running

\* quicklook.py line 128
GatherFindTimeRange == FindTimeRange

\* quicklook.py lines 130-131
GatherNoWindow ==
    /\ pc = "find_time_range_done"
    /\ ftr.none
    /\ ret' = [ended |-> TRUE, t |-> "None", neg_t |-> "None", raised |-> "no"]
    /\ pc' = "gather_data_done"
    /\ UNCHANGED <<RANDOMIZE_BOUND, table_start, table_stop, epoch, period, dur,
                   is_eb, time_col, time_start, time_stop, loc, ftr, rows, neg,
                   neg_rows, transit_rows, lab>>

\* quicklook.py lines 132-136: strip_rows on the window of find_time_range
GatherStripRows ==
    /\ pc = "find_time_range_done"
    /\ ~ftr.none
    /\ time_start' = ftr.start
    /\ time_stop' = ftr.stop
    /\ rows' = strip_rows(time_col, ftr.start, ftr.stop)
    /\ IF rows'.none
       THEN /\ ret' = [ended |-> TRUE, t |-> "None", neg_t |-> "None",
                       raised |-> "no"]
            /\ pc' = "gather_data_done"
       ELSE /\ ret' = ret
            /\ pc' = "strip_rows_negative"
    /\ UNCHANGED <<RANDOMIZE_BOUND, table_start, table_stop, epoch, period, dur,
                   is_eb, time_col, loc, ftr, neg, neg_rows, transit_rows, lab>>

\* quicklook.py line 138: strip_rows_negative on the same window; an
\* IndexError out of random.choice ends gather_data
GatherStripRowsNegative ==
    \/ ChooseDur
    \/ Attempt("transit_rows")
    \/ Exhausted("transit_rows")

GatherChoiceOfEmpty ==
    /\ pc = "neg_loop"
    /\ in_range(neg.i)
    /\ Len(time_col) = 0
    /\ pc' = "gather_data_done"
    /\ ret' = [ended |-> TRUE, t |-> "None", neg_t |-> "None",
               raised |-> "IndexError"]
    /\ UNCHANGED <<RANDOMIZE_BOUND, table_start, table_stop, epoch, period, dur,
                   is_eb, time_col, time_start, time_stop, loc, ftr, rows, neg,
                   neg_rows, transit_rows, lab>>

\* quicklook.py lines 140-142: the rows of the raw transit, and is_eb read
\* from the catalog row
GatherTransitRows ==
    /\ pc = "transit_rows"
    /\ transit_rows' = strip_rows(time_col, ftr.transit_start, ftr.transit_stop)
    /\ is_eb' \in {0, 1}
    /\ pc' = "label_columns"
    /\ UNCHANGED <<RANDOMIZE_BOUND, table_start, table_stop, epoch, period, dur,
                   time_col, time_start, time_stop, loc, ftr, rows, neg,
                   neg_rows, lab, ret>>

\* quicklook.py lines 143-148: both branches evaluate len(time) first, and
\* quicklook.py binds no name time (it is neither imported nor assigned):
\* NameError. Nothing in gather_data catches it, so lines 149-156 are never
\* reached and main (lines 176-178) logs the error and writes no file.
GatherLabelColumns ==
    /\ pc = "label_columns"
    /\ pc' = "gather_data_done"
    /\ ret' = [ended |-> TRUE, t |-> "None", neg_t |-> "None",
               raised |-> "NameError"]
    /\ UNCHANGED <<RANDOMIZE_BOUND, table_start, table_stop, epoch, period, dur,
                   is_eb, time_col, time_start, time_stop, loc, ftr, rows, neg,
                   neg_rows, transit_rows, lab>>

Next ==
    \/ GatherFindTimeRange
    \/ GatherNoWindow
    \/ GatherStripRows
    \/ GatherStripRowsNegative
    \/ GatherChoiceOfEmpty
    \/ GatherTransitRows
    \/ GatherLabelColumns

Spec == Init /\ [][Next]_vars

\* strip_rows_negative came back with a range or with (None, None)
NegativeSamplingReturned == ret.raised # "IndexError"

\* C10: once the positive window and its row range were found, gather_data
\* returns the negative segment if and only if negative sampling succeeded
\* and the target is no eclipsing-binary injection; whenever the negative
\* segment is left out, the positive segment is still returned.
C10_NegativeOptionalPositiveKept ==
    (ret.ended /\ ~ftr.none /\ ~rows.none /\ NegativeSamplingReturned) =>
        /\ ret.neg_t = "segment" <=> (~neg_rows.none /\ is_eb = 0)
        /\ ret.neg_t = "None" => ret.t = "segment"

\* gather_data hands main a segment
C10_SomeSegmentReturned == ret.ended /\ ret.t = "segment"

(***************************************************************************)
(* SpecNegLabels: the negative segment, as the calls of lines 128, 134,    *)
(* 138 and 155 build it: find_time_range, strip_rows on its window,        *)
(* strip_rows_negative on the same window, and strip_cols with 0 for is_eb *)
(* on the rows it returned. Lines 143-151, where gather_data raises, are   *)
(* left out, and the names mid_transit and neg_rows of line 155, bound     *)
(* nowhere in quicklook.py, are the mid-transit of find_time_range and the *)
(* rows time_col[i_neg_start:i_neg_stop].                                  *)
(***************************************************************************)
\* quicklook.py lines 152-155: no negative segment after a failed sampling
\* or for an eclipsing-binary injection; strip_cols on the negative rows
\* otherwise
NegativeSegment ==
    /\ pc = "strip_cols_negative"
    /\ \E eb \in {0, 1} :
         /\ is_eb' = eb
         /\ IF neg_rows.none \/ eb # 0
            THEN lab' = lab
            ELSE LET c == strip_cols(slice(time_col, neg_rows.index_start,
                                           neg_rows.index_stop),
                                     loc.mid_transit, 0, dur)
                 IN  lab' = [built |-> "strip_cols_negative", TIME |-> c.TIME,
                             IN_TRANSIT |-> c.IN_TRANSIT,
                             EB_injection |-> c.EB_injection]
    /\ pc' = "negative_done"
    /\ UNCHANGED <<RANDOMIZE_BOUND, table_start, table_stop, epoch, period, dur,
                   time_col, time_start, time_stop, loc, ftr, rows, neg,
                   neg_rows, transit_rows, ret>>

NextNegLabels ==
    \/ FindTimeRange
    \/ GatherNoWindow
    \/ GatherStripRows
    \/ ChooseDur
    \/ Attempt("strip_cols_negative")
    \/ Exhausted("strip_cols_negative")
    \/ GatherChoiceOfEmpty
    \/ NegativeSegment

SpecNegLabels == Init /\ [][NextNegLabels]_vars

NegativeSegmentBuilt ==
    pc = "negative_done" /\ lab.built = "strip_cols_negative"

C11_NegativeLabelsAllZeroRandomized ==
    (NegativeSegmentBuilt /\ RANDOMIZE_BOUND) =>
        \A i \in 1..Len(lab.TIME) :
            /\ ~(ftr.transit_start <= lab.TIME[i] /\ lab.TIME[i] <= ftr.transit_stop)
            /\ lab.IN_TRANSIT[i] = 0
            /\ lab.EB_injection[i] = 0

\* EB_injection alone is 0 on every row of every negative segment
C11_NegativeNeverEb ==
    NegativeSegmentBuilt =>
        \A i \in 1..Len(lab.TIME) : lab.EB_injection[i] = 0

\* a non-empty negative segment was built under the randomized policy
C11_RandomizedSegmentBuilt ==
    NegativeSegmentBuilt /\ RANDOMIZE_BOUND /\ Len(lab.TIME) > 0

=============================================================================
